---- MODULE Spec2Model ----
(***************************************************************************)
(* Model of Step1_MakeShapesFC.py (Generate GTFS Route Shapes, step 1):    *)
(* RunStep1 with Generate_Shapes_Street and Generate_Shapes_Straight.      *)
(* The GTFS tables are the state after SQLize_GTFS; the Network Analyst    *)
(* Route solver is the environment and answers nondeterministically.       *)
(***************************************************************************)
EXTENDS Integers, Sequences, FiniteSets, TLC

\* ------------------------------------------------------------------ bounds
\* number of trips of a small feed whose run is followed with sound stops and
\* one choice of the route type lists
MaxTrips == 3
\* number of trips of a small feed whose run is followed under every choice of
\* the route type lists and of the stop defects
MaxRoutedTrips == 2
\* number of street shapes of the large feed beyond one full chunk
ExtraShapes == 1
\* the solver's 'No route for' reports are drawn from this many shapes of a chunk
MaxReported == 2

\* ------------------------------------------------------- program constants
ChunkSize == 100
CurbApproach == 1
max_route_desc_length == 250

\* GTFS route_type code -> its text
route_type_dict ==
  [c \in 0..7 |->
     CASE c = 0 -> "Tram, Streetcar, Light rail"
       [] c = 1 -> "Subway, Metro"
       [] c = 2 -> "Rail"
       [] c = 3 -> "Bus"
       [] c = 4 -> "Ferry"
       [] c = 5 -> "Cable car"
       [] c = 6 -> "Gondola, Suspended cable car"
       [] c = 7 -> "Funicular"]

\* ------------------------------------------------------------ pure helpers
RECURSIVE Str(_)
\* '%s' % n for a non-negative integer: its decimal digits
Str(n) == IF n < 10 THEN <<n>> ELSE Str(n \div 10) \o <<n % 10>>

RECURSIVE ParseInt(_)
\* int(s) for a string of decimal digits
ParseInt(s) ==
  IF Len(s) = 0 THEN 0
  ELSE 10 * ParseInt(SubSeq(s, 1, Len(s) - 1)) + s[Len(s)]

Range(s) == {s[i] : i \in DOMAIN s}

RECURSIVE InsertBySeq(_, _)
\* insert row r after every row of the sorted list whose key is <= r's key
InsertBySeq(sorted, r) ==
  IF sorted = <<>> THEN <<r>>
  ELSE IF sorted[Len(sorted)][2] <= r[2] THEN Append(sorted, r)
  ELSE Append(InsertBySeq(SubSeq(sorted, 1, Len(sorted) - 1), r), sorted[Len(sorted)])

RECURSIVE SortBySequence(_)
\* selectedstops.sort(key=operator.itemgetter(1)): stable, ascending
SortBySequence(rows) ==
  IF rows = <<>> THEN <<>>
  ELSE InsertBySeq(SortBySequence(SubSeq(rows, 1, Len(rows) - 1)), rows[Len(rows)])

\* the tuple of stop ids of fetched rows, in sorted order
StopSequenceOf(rows) ==
  LET s == SortBySequence(rows) IN [i \in 1..Len(s) |-> s[i][1]]

\* -------------------------------------------------------------- the inputs
Stops == {"S1", "S2", "S3"}

\* stops.txt: stop_id -> [stop_lat, stop_lon]
StopsTxt ==
  [s \in Stops |->
     IF s = "S1" THEN <<0, 0>> ELSE IF s = "S2" THEN <<1, 0>> ELSE <<1, 1>>]

\* stop_times rows of one trip, (stop_id, stop_sequence), in fetch order
RowsA == << <<"S1", 1>>, <<"S2", 2>>, <<"S3", 3>> >>
RowsA2 == << <<"S3", 3>>, <<"S1", 1>>, <<"S2", 2>> >>
RowsB == << <<"S1", 1>>, <<"S3", 2>> >>
RowsC == << <<"S2", 5>> >>
NoRows == << >>

NULL == {}
Val(v) == {v}

\* one trip of a small feed: its trips.txt row and its stop_times rows
TripMenu ==
  { [route_id |-> 1, shape_id |-> NULL, rows |-> RowsA],
    [route_id |-> 1, shape_id |-> Val(Str(7)), rows |-> RowsA2],
    [route_id |-> 2, shape_id |-> NULL, rows |-> RowsA],
    [route_id |-> 1, shape_id |-> NULL, rows |-> RowsC],
    [route_id |-> 2, shape_id |-> Val(Str(7)), rows |-> NoRows],
    [route_id |-> 9, shape_id |-> NULL, rows |-> RowsB] }

\* a text of n characters (its characters differ from place to place)
Text(n) == SubSeq([i \in 1..n |-> i % 10], 1, n)

\* route_desc values: one character too long for the output field, of exactly
\* its length, short, and empty
LongDesc == Val(Text(max_route_desc_length + 1))
FullDesc == Val(Text(max_route_desc_length))
ShortDesc == Val(Text(3))
EmptyDesc == Val(Text(0))

\* routes.txt of a small feed: route 1 is a bus; route 2 a subway or of an
\* unknown type; route 9 is in no routes.txt. The bus route has a long
\* route_desc, the other route has none (routes.txt without the column).
RoutesMenu ==
  { << [route_id |-> 1, route_type |-> 3, route_desc |-> LongDesc],
       [route_id |-> 2, route_type |-> 1, route_desc |-> NULL] >>,
    << [route_id |-> 1, route_type |-> 3, route_desc |-> LongDesc],
       [route_id |-> 2, route_type |-> 9, route_desc |-> NULL] >> }

\* the small feeds of at most maxtrips trips
SmallFeeds(maxtrips) ==
  { [routes |-> r, trips |-> t] :
      r \in RoutesMenu,
      t \in UNION { [1..n -> TripMenu] : n \in 1..maxtrips } }

\* a feed of more street shapes than one chunk holds: one bus route per trip;
\* the first routes have a route_desc
LargeN == ChunkSize + ExtraShapes
LargeFeed ==
  [routes |-> [i \in 1..LargeN |->
                 [route_id |-> i, route_type |-> 3,
                  route_desc |-> IF i = 1 THEN LongDesc ELSE IF i = 2 THEN FullDesc
                                 ELSE IF i = 3 THEN ShortDesc
                                 ELSE IF i = 4 THEN EmptyDesc ELSE NULL]],
   trips |-> [i \in 1..LargeN |-> [route_id |-> i, shape_id |-> NULL, rows |-> RowsB]]]

RouteTypeChoices == {1, 3}

\* the stops of stop_times absent from stops.txt, and the stops of stops.txt
\* whose row in the Stops sublayer after AddLocations has null location fields
\* (not located on the network). Every stop of stops.txt is inserted in the
\* temporary feature class (lines 213-216) and every row of the sublayer loaded
\* from it is put in stoplocfielddict (lines 235-238).
StopDefects ==
  { [nolatlon |-> {}, nullloc |-> {}],
    [nolatlon |-> {"S2"}, nullloc |-> {}],
    [nolatlon |-> {}, nullloc |-> {"S3"}],
    [nolatlon |-> {"S2"}, nullloc |-> {"S3"}] }

\* no stop has a defect
SoundStops == [nolatlon |-> {}, nullloc |-> {}]

VARIABLES
  pc,                     \* position in RunStep1
  routes,                 \* rows of the routes table
  trips,                  \* trips table: trip_id -> [route_id, shape_id]
  tripsAtLoad,            \* the trips table as SQLize_GTFS left it
  stop_times,             \* stop_times table: trip_id -> rows
  stoplatlon_dict,
  stoplocfielddict,
  route_types_Street,
  route_types_Straight,
  RouteDict,
  trip_route_dict,
  alltrips,
  tripidx,                \* position of the loop over alltrips
  sequence_shape_dict,
  shape_trip_dict,
  shape_id,
  shape_route_dict,
  keyorder,               \* iteration order of sequence_shape_dict
  sequences_Streets_chunked,
  chunkidx,
  NoRouteGenerated,
  badStops,               \* badStops of Generate_Shapes_Street
  badStopsStraight,       \* badStops of Generate_Shapes_Straight
  unlocated_stops,        \* unlocated_stops of Generate_Shapes_Street
  warnings,               \* the calls of arcpy.AddWarning that list something
  outRoutesfc,            \* rows of the Shapes feature class
  outRoutesfcExists,      \* arcpy.Exists(outRoutesfc)
  outSequencePoints,      \* rows of Stops_wShapeIDs
  solves                  \* the Solve calls made: shapes submitted and outcome

inputs == <<routes, tripsAtLoad, stop_times, stoplatlon_dict, stoplocfielddict,
            route_types_Street, route_types_Straight>>
dedup == <<RouteDict, trip_route_dict, alltrips, tripidx, sequence_shape_dict,
           shape_trip_dict, shape_id>>
routing == <<keyorder, sequences_Streets_chunked, chunkidx, NoRouteGenerated,
             badStops, badStopsStraight, unlocated_stops, warnings, outRoutesfc,
             outRoutesfcExists, outSequencePoints, solves>>
vars == <<pc, trips, shape_route_dict, inputs, dedup, routing>>

EmptyDict == << >>

\* the tables after SQLize_GTFS, and the globals RunStep1 initialises
InitWith(feed, defects, street, straight) ==
  /\ pc = "routes"
  /\ routes = feed.routes
  /\ trips = [t \in DOMAIN feed.trips |->
                [route_id |-> feed.trips[t].route_id, shape_id |-> feed.trips[t].shape_id]]
  /\ tripsAtLoad = trips
  /\ stop_times = [t \in {u \in DOMAIN feed.trips : feed.trips[u].rows # <<>>} |->
                     feed.trips[t].rows]
  /\ stoplatlon_dict = [s \in Stops \ defects.nolatlon |-> StopsTxt[s]]
  /\ stoplocfielddict = [s \in Stops \ defects.nolatlon |->
                           IF s \in defects.nullloc THEN NULL ELSE Val(s)]
  /\ route_types_Street = street
  /\ route_types_Straight = straight
  /\ RouteDict = EmptyDict
  /\ trip_route_dict = EmptyDict
  /\ alltrips = << >>
  /\ tripidx = 1
  /\ sequence_shape_dict = EmptyDict
  /\ shape_trip_dict = EmptyDict
  /\ shape_id = 1
  /\ shape_route_dict = EmptyDict
  /\ keyorder = << >>
  /\ sequences_Streets_chunked = << >>
  /\ chunkidx = 1
  /\ NoRouteGenerated = << >>
  /\ badStops = << >>
  /\ badStopsStraight = << >>
  /\ unlocated_stops = << >>
  /\ warnings = << >>
  /\ outRoutesfc = << >>
  /\ outRoutesfcExists = FALSE
  /\ outSequencePoints = << >>
  /\ solves = << >>

\* A run starts from a small feed under any choice of the two route type
\* lists and any of the stop defects, from a longer small feed with sound
\* stops, buses on the streets and subways on straight lines, or from the
\* large feed with its buses on the streets.
Init ==
  \/ \E feed \in SmallFeeds(MaxRoutedTrips), d \in StopDefects,
        street \in SUBSET RouteTypeChoices, straight \in SUBSET RouteTypeChoices :
       InitWith(feed, d, street, straight)
  \/ \E feed \in SmallFeeds(MaxTrips) : InitWith(feed, SoundStops, {3}, {1})
  \/ InitWith(LargeFeed, SoundStops, {3}, {})

\* ------------------------------------------------------------ dictionaries
Put(d, k, v) == [x \in DOMAIN d \cup {k} |-> IF x = k THEN v ELSE d[x]]

Min(S) == CHOOSE x \in S : \A y \in S : x <= y
Max(S) == CHOOSE x \in S : \A y \in S : y <= x

\* the elements of a set of integers, smallest first
Ascending(S) ==
  [i \in 1..Cardinality(S) |->
     CHOOSE x \in S : Cardinality({y \in S : y < x}) = i - 1]

Reverse(s) == [i \in 1..Len(s) |-> s[Len(s) + 1 - i]]

\* ------------------------------------------------- RunStep1: the dictionaries
\* RouteDict after the loop over the fetched routes (a later row of the same
\* route_id replaces an earlier one)
RouteDictOf(routelist) ==
  [id \in {routelist[i].route_id : i \in DOMAIN routelist} |->
     LET route == routelist[Max({i \in DOMAIN routelist : routelist[i].route_id = id})]
     IN [route_desc |-> route.route_desc, route_type |-> route.route_type,
         route_type_text |-> route_type_dict[route.route_type]]]

\* int(route[5]) is a key of route_type_dict
KnownType(route) == route.route_type \in DOMAIN route_type_dict

\* the rows before the first one whose type is unknown
KnownPrefix(routelist) ==
  LET bad == {i \in DOMAIN routelist : ~KnownType(routelist[i])} IN
  IF bad = {} THEN routelist ELSE SubSeq(routelist, 1, Min(bad) - 1)

\* "Make dictionary of route info". In the except branch the assignment
\* route[5] = '100' is to a row tuple of fetchall(): it raises TypeError,
\* which RunStep1 re-raises.
BuildRouteDict ==
  /\ pc = "routes"
  /\ RouteDict' = RouteDictOf(KnownPrefix(routes))
  /\ pc' = IF KnownPrefix(routes) = routes THEN "trips" ELSE "failed"
  /\ UNCHANGED <<trips, shape_route_dict, inputs, trip_route_dict, alltrips, tripidx,
                 sequence_shape_dict, shape_trip_dict, shape_id, routing>>

\* "Match trip_ids with route_ids" and SELECT DISTINCT trip_id FROM stop_times
MatchTrips ==
  /\ pc = "trips"
  /\ trip_route_dict' = [t \in DOMAIN trips |-> trips[t].route_id]
  /\ alltrips' = Ascending(DOMAIN stop_times)
  /\ tripidx' = 1
  /\ pc' = "dedup"
  /\ UNCHANGED <<trips, shape_route_dict, inputs, RouteDict, sequence_shape_dict,
                 shape_trip_dict, shape_id, routing>>

\* (mutant) the key without the route: the stop sequence alone
SequenceKeyStopsOnly(trip) == <<1, StopSequenceOf(stop_times[trip])>>

\* the key under which a trip's stop sequence is filed
SequenceKey(trip) == <<trip_route_dict[trip], StopSequenceOf(stop_times[trip])>>

\* shape_trip_dict.setdefault(sh, []).append(trip)
AppendTrip(d, sh, trip) ==
  Put(d, sh, (IF sh \in DOMAIN d THEN d[sh] ELSE << >>) \o <<trip>>)

\* (mutant) the counter skips an id
NextShapeIdSkips(id) == id + 2

\* line 337: shape_id += 1
NextShapeId(id) == id + 1

\* one pass of the loop "for trip in alltrips"
DedupTrip ==
  /\ pc = "dedup"
  /\ tripidx <= Len(alltrips)
  /\ LET trip == alltrips[tripidx] IN
     IF trip \notin DOMAIN trip_route_dict
     THEN /\ pc' = "failed"
          /\ UNCHANGED <<sequence_shape_dict, shape_trip_dict, shape_id, tripidx>>
     ELSE LET key == SequenceKey(trip) IN
          /\ pc' = pc
          /\ tripidx' = tripidx + 1
          /\ IF key \in DOMAIN sequence_shape_dict
             THEN /\ shape_trip_dict' =
                       AppendTrip(shape_trip_dict, sequence_shape_dict[key], trip)
                  /\ UNCHANGED <<sequence_shape_dict, shape_id>>
             ELSE /\ sequence_shape_dict' = Put(sequence_shape_dict, key, shape_id)
                  /\ shape_trip_dict' = AppendTrip(shape_trip_dict, shape_id, trip)
                  /\ shape_id' = NextShapeId(shape_id)
  /\ UNCHANGED <<trips, shape_route_dict, inputs, RouteDict, trip_route_dict, alltrips,
                 routing>>

numshapes == shape_id - 1

\* (mutant) the UPDATE without its WHERE clause: every row is written
UpdatedTripsNoWhere(tbl, std) ==
  [t \in DOMAIN tbl |->
     IF DOMAIN std = {} THEN tbl[t]
     ELSE [tbl[t] EXCEPT !.shape_id = Val(Str(Max(DOMAIN std)))]]

\* UPDATE trips SET shape_id='<shape>' WHERE trip_id='<trip>', for every trip
\* of every shape
UpdatedTrips(tbl, std) ==
  [t \in DOMAIN tbl |->
     LET shs == {sh \in DOMAIN std : t \in Range(std[sh])} IN
     IF shs = {} THEN tbl[t]
     ELSE [tbl[t] EXCEPT !.shape_id = Val(Str(Max(shs)))]]

\* The orders in which "for sequence in sequence_shape_dict" may visit the keys
\* of the finished dictionary (the same order at every visit): of the orders a
\* hash table may have, the two by shape id.
KeyOrders(d) ==
  LET byid == [i \in 1..Cardinality(DOMAIN d) |-> CHOOSE k \in DOMAIN d : d[k] = i]
  IN {byid, Reverse(byid)}

\* (mutant) the routes of all the trips, whatever their shape
ShapeRoutesOfAllTrips(sh) == {trip_route_dict[t] : t \in DOMAIN trip_route_dict}

\* the routes of the trips of a shape
ShapeRoutesSet(sh) == {trip_route_dict[t] : t \in Range(shape_trip_dict[sh])}

\* "Figure out which routes go with which shapes and update trips table",
\* after the loop over the trips has ended. The routes of a shape are listed
\* in the iteration order of a set.
UpdateTrips ==
  /\ pc = "dedup"
  /\ tripidx > Len(alltrips)
  /\ trips' = UpdatedTrips(trips, shape_trip_dict)
  /\ \E descending \in BOOLEAN :
       shape_route_dict' =
         [sh \in DOMAIN shape_trip_dict |->
            IF descending THEN Reverse(Ascending(ShapeRoutesSet(sh)))
            ELSE Ascending(ShapeRoutesSet(sh))]
  /\ keyorder' \in KeyOrders(sequence_shape_dict)
  /\ pc' = "generate"
  /\ UNCHANGED <<inputs, dedup, sequences_Streets_chunked, chunkidx, NoRouteGenerated,
                 badStops, badStopsStraight, unlocated_stops, warnings, outRoutesfc,
                 outRoutesfcExists, outSequencePoints, solves>>

\* ---------------------------------------------------- Generate_Shapes_Street
\* RouteDict[route_id][4] of the route of a key
RouteTypeOfKey(sequence) == RouteDict[sequence[1]].route_type

\* (mutant) the KeyError is swallowed and the run goes on
OnKeyErrorGoOn == "reconcile"

\* lines 446-447: an exception other than CustomError leaves RunStep1
OnKeyError == "failed"

\* RouteDict[route_id] raises KeyError for some key of the dictionary
RouteLookupFails == \E i \in DOMAIN keyorder : keyorder[i][1] \notin DOMAIN RouteDict

InStreetTypes(sequence) == RouteTypeOfKey(sequence) \in route_types_Street

\* "Extract only the sequences we want to make street-based shapes for."
sequences_Streets == SelectSeq(keyorder, InStreetTypes)

\* (mutant) all the sequences go in one chunk
ChunkedWhole(seqs) == IF seqs = << >> THEN << >> ELSE <<seqs>>

\* sequences_Streets[i:i+ChunkSize] for i in xrange(0, len, ChunkSize)
Chunked(seqs) ==
  [c \in 1..((Len(seqs) + ChunkSize - 1) \div ChunkSize) |->
     SubSeq(seqs, (c - 1) * ChunkSize + 1,
            IF c * ChunkSize < Len(seqs) THEN c * ChunkSize ELSE Len(seqs))]

\* line 386: "if route_types_Straight or NoRouteGenerated"
AfterStreet(noroute) ==
  IF route_types_Straight # {} \/ noroute # << >> THEN "straight" ELSE "reconcile"

\* Generate_Shapes_Street up to the loop over the chunks
StreetPrepare ==
  /\ pc = "generate"
  /\ route_types_Street # {}
  /\ IF RouteLookupFails
     THEN /\ pc' = OnKeyError
          /\ UNCHANGED sequences_Streets_chunked
     ELSE /\ pc' = "solve"
          /\ sequences_Streets_chunked' = Chunked(sequences_Streets)
  /\ chunkidx' = 1
  /\ UNCHANGED <<trips, shape_route_dict, inputs, dedup, keyorder, NoRouteGenerated,
                 badStops, badStopsStraight, unlocated_stops, warnings, outRoutesfc,
                 outRoutesfcExists, outSequencePoints, solves>>

\* line 381: no street route types, Generate_Shapes_Street is not called
SkipStreet ==
  /\ pc = "generate"
  /\ route_types_Street = {}
  /\ pc' = AfterStreet(NoRouteGenerated)
  /\ UNCHANGED <<trips, shape_route_dict, inputs, dedup, routing>>

\* the row inserted for one stop: the point is (stop_lon, stop_lat)
PointRow(stop, sh, sequence_num, locfields) ==
  [X |-> stoplatlon_dict[stop][2], Y |-> stoplatlon_dict[stop][1], shape_id |-> sh,
   sequence |-> sequence_num, CurbApproach |-> CurbApproach, stop_id |-> stop,
   locfields |-> locfields]

RECURSIVE StreetStopsLocatedOnly(_, _, _)
\* (mutant) a stop with null location fields is left out as well
StreetStopsLocatedOnly(stops, sh, sequence_num) ==
  IF stops = << >> THEN [rows |-> << >>, bad |-> << >>]
  ELSE LET stop == Head(stops)
           rest == StreetStopsLocatedOnly(Tail(stops), sh, sequence_num + 1)
       IN IF \/ stop \notin DOMAIN stoplatlon_dict
             \/ stop \notin DOMAIN stoplocfielddict
             \/ stoplocfielddict[stop] = NULL
          THEN [rows |-> rest.rows, bad |-> <<stop>> \o rest.bad]
          ELSE [rows |-> <<PointRow(stop, sh, sequence_num, stoplocfielddict[stop])>>
                           \o rest.rows,
                bad |-> rest.bad]

RECURSIVE StreetStops(_, _, _)
\* the loop over the stops of one sequence of a chunk, from sequence_num on:
\* the rows inserted and the stops appended to badStops
StreetStops(stops, sh, sequence_num) ==
  IF stops = << >> THEN [rows |-> << >>, bad |-> << >>]
  ELSE LET stop == Head(stops)
           rest == StreetStops(Tail(stops), sh, sequence_num + 1)
       IN IF stop \notin DOMAIN stoplatlon_dict \/ stop \notin DOMAIN stoplocfielddict
          THEN [rows |-> rest.rows, bad |-> <<stop>> \o rest.bad]
          ELSE [rows |-> <<PointRow(stop, sh, sequence_num, stoplocfielddict[stop])>>
                           \o rest.rows,
                bad |-> rest.bad]

RECURSIVE ChunkInputOf(_, _, _)
\* the rows inserted and the stops appended to badStops by the passes lo..hi
\* of the loop over the sequences of a chunk (the passes are concatenated by
\* halves to keep the evaluation shallow)
ChunkInputOf(chunk, lo, hi) ==
  IF lo > hi THEN [rows |-> << >>, bad |-> << >>]
  ELSE IF lo = hi THEN StreetStops(chunk[lo][2], sequence_shape_dict[chunk[lo]], 1)
  ELSE LET mid == (lo + hi) \div 2
           a == ChunkInputOf(chunk, lo, mid)
           b == ChunkInputOf(chunk, mid + 1, hi)
       IN [rows |-> a.rows \o b.rows, bad |-> a.bad \o b.bad]

\* InputRoutePoints and the additions to badStops for the sequences of a chunk
ChunkInput(chunk) == ChunkInputOf(chunk, 1, Len(chunk))

\* the RouteName values of the stops handed to AddLocations for a Solve
Submitted(chunk) == {sequence_shape_dict[q] : q \in Range(chunk)}

\* (mutant) only the last shape of the chunk is kept
shapes_in_chunk_last(chunk) ==
  IF chunk = << >> THEN << >> ELSE <<sequence_shape_dict[chunk[Len(chunk)]]>>

shapes_in_chunk(chunk) == [i \in 1..Len(chunk) |-> sequence_shape_dict[chunk[i]]]

\* the number of stops of a shape among the solver's input
NumInputStops(sequence) ==
  Len(StreetStops(sequence[2], sequence_shape_dict[sequence], 1).rows)

\* the number of those that the solver has not reported as unlocated
NumLocatedStops(sequence, unlocated) ==
  Len(SelectSeq(StreetStops(sequence[2], sequence_shape_dict[sequence], 1).rows,
                LAMBDA row : row.stop_id \notin unlocated))

RECURSIVE FirstOf(_, _)
\* the k smallest elements of a set of integers
FirstOf(S, k) ==
  IF k = 0 \/ S = {} THEN {} ELSE {Min(S)} \cup FirstOf(S \ {Min(S)}, k - 1)

\* A row of the solver's Routes sublayer: RouteName is the shape_id as text
StreetRow(sh) ==
  [Name |-> Str(sh), kind |-> "street", vertices |-> << >>,
   shape_id |-> NULL, route_id |-> NULL, route_desc |-> NULL, route_type |-> NULL]

\* (mutant) the warnings are not read
ParsedNoRouteIgnored(chunk, noroute) == << >>

\* the 'No route for "<name>"' warnings of a Solve, parsed: int(thingsInQuotes[0])
ParsedNoRoute(chunk, noroute) ==
  LET names == SelectSeq([i \in 1..Len(chunk) |-> Str(sequence_shape_dict[chunk[i]])],
                         LAMBDA n : ParseInt(n) \in noroute)
  IN [i \in 1..Len(names) |-> ParseInt(names[i])]

\* the stops among the solver's input that have null location fields
NullLocated(rows) == {rows[i].stop_id : i \in {j \in DOMAIN rows : rows[j].locfields = NULL}}

\* The ' is unlocated.' warnings of a Solve, parsed: thingsInQuotes[0] of each.
\* The Name field of the Stops sublayer is not mapped to stop_id (lines
\* 709-715): the quoted name is the default one of the input row.
ParsedUnlocated(rows, unlocated) ==
  LET at == SelectSeq([i \in 1..Len(rows) |-> i], LAMBDA i : rows[i].stop_id \in unlocated)
  IN [k \in 1..Len(at) |-> <<"Location", at[k]>>]

\* the position of a stop id among the stop ids, as sorted() orders them
StopRank(stop) == CASE stop = "S1" -> 1 [] stop = "S2" -> 2 [] stop = "S3" -> 3

\* sorted(list(set(stops)))
SortedStops(stops) ==
  LET S == Range(stops) IN
  [i \in 1..Cardinality(S) |->
     CHOOSE x \in S : Cardinality({y \in S : StopRank(y) < StopRank(x)}) = i - 1]

\* sorted(ids) of a list of integers: the repeated ones stay
SortedInts(ids) ==
  LET n == Len(ids)
      rank == SubSeq([i \in 1..n |->
                        Cardinality({j \in 1..n : \/ ids[j] < ids[i]
                                                  \/ ids[j] = ids[i] /\ j < i}) + 1], 1, n)
  IN [p \in 1..n |-> ids[CHOOSE i \in 1..n : rank[i] = p]]

\* list(set(stops)): the stops once each, in the order of a hash table
ListOfSet(stops) ==
  LET S == Range(stops) IN {p \in [1..Cardinality(S) -> S] : Range(p) = S}

\* the warnings at the end of Generate_Shapes_Street (lines 773-790): the one
\* about the unlocated stops has no list in its text
StreetWarnings ==
  (IF NoRouteGenerated # << >>
   THEN <<[about |-> "NoRouteGenerated", list |-> Val(SortedInts(NoRouteGenerated))]>>
   ELSE << >>)
  \o (IF badStops # << >>
      THEN <<[about |-> "badStops", list |-> Val(SortedStops(badStops))]>>
      ELSE << >>)
  \o (IF unlocated_stops # << >>
      THEN <<[about |-> "unlocated_stops", list |-> NULL]>>
      ELSE << >>)

\* (mutant) the exception of the Solve ends the run
OnSolveFailureRaise == "failed"

\* lines 735-736: where the loop goes on when the Solve has raised
OnSolveFailure == "solve"

\* One pass of the loop over the chunks: the input points, the Solve, and the
\* saving of its routes. The solver fails as a whole, or answers each shape it
\* was given stops of: a route for a shape of two stops or more unless it
\* reports 'No route for' it; a shape of one stop gets no route, reported or
\* not; a shape none of whose stops was inserted is unknown to it. The
\* reported shapes are any of the first MaxReported shapes it knows. A stop
\* handed over with null location fields is located by the solver or is
\* reported as unlocated and left out of the routes.
SolveChunk ==
  /\ pc = "solve"
  /\ chunkidx <= Len(sequences_Streets_chunked)
  /\ LET chunk == sequences_Streets_chunked[chunkidx]
         input == ChunkInput(chunk)
         known == {i \in DOMAIN chunk : NumInputStops(chunk[i]) >= 1}
     IN
     /\ badStops' = badStops \o input.bad
     /\ chunkidx' = chunkidx + 1
     /\ \/ \* the Solve raises
           /\ NoRouteGenerated' = NoRouteGenerated \o shapes_in_chunk(chunk)
           /\ solves' = Append(solves, [shapes |-> Submitted(chunk), failed |-> TRUE,
                                        noroute |-> {}, routed |-> {},
                                        unlocated |-> {}])
           /\ pc' = OnSolveFailure
           /\ UNCHANGED <<outRoutesfc, outRoutesfcExists, outSequencePoints,
                          unlocated_stops>>
        \/ \* the Solve returns
           \E nr \in SUBSET FirstOf(known, MaxReported),
              unlocated \in SUBSET NullLocated(input.rows) :
             LET noroute == {sequence_shape_dict[chunk[i]] : i \in nr}
                 routed == SelectSeq(chunk,
                             LAMBDA q : /\ NumLocatedStops(q, unlocated) >= 2
                                        /\ sequence_shape_dict[q] \notin noroute)
             IN
             /\ NoRouteGenerated' = NoRouteGenerated \o ParsedNoRoute(chunk, noroute)
             /\ unlocated_stops' = unlocated_stops \o ParsedUnlocated(input.rows, unlocated)
             /\ outRoutesfc' = outRoutesfc \o
                   [i \in 1..Len(routed) |-> StreetRow(sequence_shape_dict[routed[i]])]
             /\ outRoutesfcExists' = TRUE
             /\ outSequencePoints' = outSequencePoints \o input.rows
             /\ solves' = Append(solves, [shapes |-> Submitted(chunk), failed |-> FALSE,
                                          noroute |-> noroute,
                                          routed |-> {sequence_shape_dict[q] :
                                                        q \in Range(routed)},
                                          unlocated |-> unlocated])
             /\ pc' = pc
  /\ UNCHANGED <<trips, shape_route_dict, inputs, dedup, keyorder,
                 sequences_Streets_chunked, badStopsStraight, warnings>>

\* the end of Generate_Shapes_Street and line 386 of RunStep1
StreetFinish ==
  /\ pc = "solve"
  /\ chunkidx > Len(sequences_Streets_chunked)
  /\ warnings' = warnings \o StreetWarnings
  /\ pc' = AfterStreet(NoRouteGenerated)
  /\ UNCHANGED <<trips, shape_route_dict, inputs, dedup, keyorder,
                 sequences_Streets_chunked, chunkidx, NoRouteGenerated, badStops,
                 badStopsStraight, unlocated_stops, outRoutesfc, outRoutesfcExists,
                 outSequencePoints, solves>>

\* -------------------------------------------------- Generate_Shapes_Straight
\* (mutant) only the route type decides
InStraightBucketByTypeOnly(sequence) ==
  RouteTypeOfKey(sequence) \in route_types_Straight

\* line 828: the shape is drawn as straight lines
InStraightBucket(sequence) ==
  \/ RouteTypeOfKey(sequence) \in route_types_Straight
  \/ sequence_shape_dict[sequence] \in Range(NoRouteGenerated)

RECURSIVE StraightStopsBreak(_, _, _)
\* (mutant) a stop without coordinates ends the line
StraightStopsBreak(stops, sh, sequence_num) ==
  IF stops = << >> THEN [rows |-> << >>, array |-> << >>, bad |-> << >>]
  ELSE LET stop == Head(stops) IN
       IF stop \notin DOMAIN stoplatlon_dict
       THEN [rows |-> << >>, array |-> << >>, bad |-> <<stop>>]
       ELSE LET row == PointRow(stop, sh, sequence_num, NULL)
                rest == StraightStopsBreak(Tail(stops), sh, sequence_num + 1)
            IN [rows |-> <<row>> \o rest.rows,
                array |-> << <<row.X, row.Y>> >> \o rest.array,
                bad |-> rest.bad]

RECURSIVE StraightStopsDense(_, _, _)
\* (mutant) a stop without coordinates does not take a sequence number
StraightStopsDense(stops, sh, sequence_num) ==
  IF stops = << >> THEN [rows |-> << >>, array |-> << >>, bad |-> << >>]
  ELSE LET stop == Head(stops) IN
       IF stop \notin DOMAIN stoplatlon_dict
       THEN LET rest == StraightStopsDense(Tail(stops), sh, sequence_num)
            IN [rows |-> rest.rows, array |-> rest.array,
                bad |-> IF sh \notin Range(NoRouteGenerated)
                        THEN <<stop>> \o rest.bad ELSE rest.bad]
       ELSE LET row == PointRow(stop, sh, sequence_num, NULL)
                rest == StraightStopsDense(Tail(stops), sh, sequence_num + 1)
            IN [rows |-> <<row>> \o rest.rows,
                array |-> << <<row.X, row.Y>> >> \o rest.array,
                bad |-> rest.bad]

RECURSIVE StraightStops(_, _, _)
\* the loop over the stops of one sequence, from sequence_num on: the rows
\* inserted into the stops feature class, the points added to the array, and
\* the stops appended to badStops
StraightStops(stops, sh, sequence_num) ==
  IF stops = << >> THEN [rows |-> << >>, array |-> << >>, bad |-> << >>]
  ELSE LET stop == Head(stops)
           rest == StraightStops(Tail(stops), sh, sequence_num + 1)
       IN IF stop \notin DOMAIN stoplatlon_dict
          THEN [rows |-> rest.rows, array |-> rest.array,
                bad |-> IF sh \notin Range(NoRouteGenerated)
                        THEN <<stop>> \o rest.bad ELSE rest.bad]
          ELSE LET row == PointRow(stop, sh, sequence_num, NULL) IN
               [rows |-> <<row>> \o rest.rows,
                array |-> << <<row.X, row.Y>> >> \o rest.array,
                bad |-> rest.bad]

\* ucursor.insertRow((polyline, shape_id)): the Name field holds the id as text
StraightRow(sh, array) ==
  [Name |-> Str(sh), kind |-> "straight", vertices |-> array,
   shape_id |-> NULL, route_id |-> NULL, route_desc |-> NULL, route_type |-> NULL]

\* one pass of the loop over the keys of sequence_shape_dict
StraightOne(sequence) ==
  IF InStraightBucket(sequence)
  THEN LET sh == sequence_shape_dict[sequence]
           one == StraightStops(sequence[2], sh, 1)
       IN [lines |-> <<StraightRow(sh, one.array)>>, rows |-> one.rows, bad |-> one.bad]
  ELSE [lines |-> << >>, rows |-> << >>, bad |-> << >>]

RECURSIVE StraightLoop(_, _, _)
\* the passes lo..hi of that loop (concatenated by halves)
StraightLoop(order, lo, hi) ==
  IF lo > hi THEN [lines |-> << >>, rows |-> << >>, bad |-> << >>]
  ELSE IF lo = hi THEN StraightOne(order[lo])
  ELSE LET mid == (lo + hi) \div 2
           a == StraightLoop(order, lo, mid)
           b == StraightLoop(order, mid + 1, hi)
       IN [lines |-> a.lines \o b.lines, rows |-> a.rows \o b.rows,
           bad |-> a.bad \o b.bad]

\* the keys visited before RouteDict[route_id] raises KeyError, all if it never does
KeysBeforeKeyError ==
  LET bad == {i \in DOMAIN keyorder : keyorder[i][1] \notin DOMAIN RouteDict} IN
  IF bad = {} THEN Len(keyorder) ELSE Min(bad) - 1

\* Generate_Shapes_Straight. The Shapes feature class is created if it does
\* not exist. The rows are inserted inside an edit session that only
\* stopEditing(True) saves: when the loop raises, the rows inserted so far
\* are kept or lost. The warning at the end (lines 861-863) lists the stops
\* without coordinates as list(set(badStops)) has them.
StraightPass ==
  /\ pc = "straight"
  /\ LET out == StraightLoop(keyorder, 1, KeysBeforeKeyError) IN
     /\ outRoutesfcExists' = TRUE
     /\ badStopsStraight' = out.bad
     /\ IF RouteLookupFails
        THEN /\ pc' = OnKeyError
             /\ \/ /\ outRoutesfc' = outRoutesfc \o out.lines
                   /\ outSequencePoints' = outSequencePoints \o out.rows
                \/ UNCHANGED <<outRoutesfc, outSequencePoints>>
             /\ UNCHANGED warnings
        ELSE /\ pc' = "reconcile"
             /\ outRoutesfc' = outRoutesfc \o out.lines
             /\ outSequencePoints' = outSequencePoints \o out.rows
             /\ IF out.bad = << >> THEN UNCHANGED warnings
                ELSE \E l \in ListOfSet(out.bad) :
                       warnings' = Append(warnings, [about |-> "badStops", list |-> Val(l)])
  /\ UNCHANGED <<trips, shape_route_dict, inputs, dedup, keyorder,
                 sequences_Streets_chunked, chunkidx, NoRouteGenerated, badStops,
                 unlocated_stops, solves>>

\* ------------------------------------------- RunStep1: the route information
\* (mutant) the route_desc is written as it is
TruncatedDescWhole(route_desc) == route_desc

\* line 421: route_desc[0:max_route_desc_length] if route_desc else route_desc
TruncatedDesc(route_desc) ==
  IF route_desc = NULL \/ route_desc = EmptyDesc THEN route_desc
  ELSE {SubSeq(text, 1, IF Len(text) < max_route_desc_length THEN Len(text)
                        ELSE max_route_desc_length) : text \in route_desc}

\* the update of one row of the Shapes feature class
Stamped(row) ==
  LET id == ParseInt(row.Name)
      route_id == shape_route_dict[id][1]
  IN [row EXCEPT !.shape_id = Val(id), !.route_id = Val(route_id),
                 !.route_desc = TruncatedDesc(RouteDict[route_id].route_desc),
                 !.route_type = Val(RouteDict[route_id].route_type)]

\* "Add route information to output feature class": AddField raises when no
\* pass has created the Shapes feature class
Reconcile ==
  /\ pc = "reconcile"
  /\ IF outRoutesfcExists
     THEN /\ outRoutesfc' = [i \in DOMAIN outRoutesfc |-> Stamped(outRoutesfc[i])]
          /\ pc' = "done"
     ELSE /\ pc' = "failed"
          /\ UNCHANGED outRoutesfc
  /\ UNCHANGED <<trips, shape_route_dict, inputs, dedup, keyorder,
                 sequences_Streets_chunked, chunkidx, NoRouteGenerated, badStops,
                 badStopsStraight, unlocated_stops, warnings, outRoutesfcExists,
                 outSequencePoints, solves>>

Next ==
  \/ BuildRouteDict \/ MatchTrips \/ DedupTrip \/ UpdateTrips
  \/ StreetPrepare \/ SkipStreet \/ SolveChunk \/ StreetFinish
  \/ StraightPass \/ Reconcile

Spec == Init /\ [][Next]_vars

\* =================================================================== claims
\* ---- what the claims speak of, read from the tables and the outputs
\* the stop ids of a trip's stop_times rows, ordered by stop_sequence
OrderedStops(t) == StopSequenceOf(stop_times[t])

\* the (route_id, stop_sequence) key of a trip, read from the tables
TableKey(t) == <<trips[t].route_id, OrderedStops(t)>>

\* the trips the loop over alltrips has filed under a shape
FiledTrips == UNION {Range(shape_trip_dict[sh]) : sh \in DOMAIN shape_trip_dict}

\* the key of the first trip filed under a shape
FirstKey(sh) == TableKey(shape_trip_dict[sh][1])

\* the loop over the trips has ended (and the run went on)
DedupFinished == pc \in {"generate", "solve", "straight", "reconcile", "done"}

\* C1: trips that have stop_times rows get one shape id exactly when they are
\* of one route and visit the same stops in the same order. Stated shape by
\* shape: the trips filed under one shape all have the key of its first trip
\* (same shape, hence same route and stops), and no two shapes have first
\* trips of one key (same route and stops, hence same shape); once the
\* deduplication has finished every trip of stop_times is filed.
C1_SameShapeIffSameRouteAndStops ==
  /\ \A sh \in DOMAIN shape_trip_dict :
       LET first == FirstKey(sh) IN
       \A t \in Range(shape_trip_dict[sh]) : TableKey(t) = first
  /\ Cardinality({FirstKey(sh) : sh \in DOMAIN shape_trip_dict})
       = Cardinality(DOMAIN shape_trip_dict)
  /\ DedupFinished => FiledTrips = DOMAIN stop_times

C1_Witness ==
  /\ pc = "generate"
  /\ \E s1, s2 \in DOMAIN shape_trip_dict :
       /\ Len(shape_trip_dict[s1]) = 2
       /\ stop_times[shape_trip_dict[s1][1]] # stop_times[shape_trip_dict[s1][2]]
       /\ FirstKey(s1)[2] = FirstKey(s2)[2]
       /\ FirstKey(s1)[1] # FirstKey(s2)[1]

\* the keys of the trips visited so far, in the order of the visits, and the
\* ids the dictionary holds for such keys
VisitedKeys == SubSeq([i \in 1..(tripidx - 1) |-> TableKey(alltrips[i])], 1, tripidx - 1)
VisitedIds(keys) == SubSeq([i \in DOMAIN keys |-> sequence_shape_dict[keys[i]]], 1, Len(keys))

\* C2: the shape ids given out are exactly 1..numshapes, numshapes is the
\* number of distinct (route_id, stop_sequence) keys met, and a key met
\* earlier in the loop over the trips has the smaller id.
C2_DenseIdsInFirstSeenOrder ==
  pc \notin {"routes", "trips"} =>
    LET keys == VisitedKeys
        ids == VisitedIds(keys)
        firsts == {i \in DOMAIN keys : \A j \in 1..(i - 1) : keys[j] # keys[i]}
    IN
    /\ DOMAIN sequence_shape_dict = Range(keys)
    /\ Range(ids) = 1..numshapes
    /\ DOMAIN shape_trip_dict = 1..numshapes
    /\ numshapes = Cardinality(Range(keys))
    /\ \A i1, i2 \in firsts : i1 < i2 => ids[i1] < ids[i2]

C2_Witness ==
  /\ pc = "generate"
  /\ numshapes = 2
  /\ Len(alltrips) = 3
  /\ TableKey(alltrips[1]) = TableKey(alltrips[3])
  /\ TableKey(alltrips[1]) # TableKey(alltrips[2])

\* C3: when the deduplication has finished, a trip with stop_times rows has a
\* stored shape_id that is not null and is the id of the one shape whose trip
\* list holds it (the lists hold each trip once); a trip without stop_times
\* rows has the shape_id it was loaded with.
C3_StoredShapeIds ==
  DedupFinished =>
    /\ \A t \in DOMAIN trips :
         IF t \in DOMAIN stop_times
         THEN /\ trips[t].shape_id # NULL
              /\ \A v \in trips[t].shape_id :
                   /\ ParseInt(v) \in DOMAIN shape_trip_dict
                   /\ t \in Range(shape_trip_dict[ParseInt(v)])
              /\ trips[t].route_id = tripsAtLoad[t].route_id
         ELSE trips[t] = tripsAtLoad[t]
    /\ \A sh \in DOMAIN shape_trip_dict :
         /\ Cardinality(Range(shape_trip_dict[sh])) = Len(shape_trip_dict[sh])
         /\ \A t \in Range(shape_trip_dict[sh]) : trips[t].shape_id = Val(Str(sh))

C3_Witness ==
  /\ pc = "generate"
  /\ \E t \in DOMAIN trips \ DOMAIN stop_times : trips[t].shape_id # NULL
  /\ \E t \in DOMAIN stop_times :
       /\ tripsAtLoad[t].shape_id # NULL
       /\ trips[t].shape_id # tripsAtLoad[t].shape_id

\* ---- the Shapes output, read by shape id
IsStreetRow(row) == row.kind = "street"
IsStraightRow(row) == row.kind = "straight"
StreetRows == SelectSeq(outRoutesfc, IsStreetRow)
StraightRows == SelectSeq(outRoutesfc, IsStraightRow)
StreetIds == {ParseInt(StreetRows[i].Name) : i \in DOMAIN StreetRows}
StraightIds == {ParseInt(StraightRows[i].Name) : i \in DOMAIN StraightRows}

\* the route_type of a route in the routes table: none if it has no row
TypeInTable(route_id) ==
  LET rows == {i \in DOMAIN routes : routes[i].route_id = route_id} IN
  IF rows = {} THEN {} ELSE {routes[Max(rows)].route_type}

\* the route type (if any) and the stops of a shape, read from its first trip
TypeOfShape(sh) == TypeInTable(FirstKey(sh)[1])
StopsOfShape(sh) == FirstKey(sh)[2]

\* the shapes of the chunks whose Solve raised, the shapes the solver reported
\* as 'No route for', and the shapes it returned a route for
FailedShapes == UNION {solves[i].shapes : i \in {j \in DOMAIN solves : solves[j].failed}}
ReportedShapes == UNION {solves[i].noroute : i \in DOMAIN solves}
RoutedShapes == UNION {solves[i].routed : i \in DOMAIN solves}

\* the passes are over: the output is the final one
PassesOver == pc \in {"reconcile", "done"}

\* C4: no shape ends the run with a street geometry and a straight-line
\* geometry in the Shapes output, whatever the two lists of route types are.
C4_RoutedByOneMethod ==
  pc = "done" => StreetIds \cap StraightIds = {}

\* C5: the straight-line pass emits a row for exactly the shapes whose route
\* type is in route_types_Straight or whose id is in NoRouteGenerated; a shape
\* whose route type is in neither list has no row in the final output.
C5_StraightBucket ==
  PassesOver =>
    /\ StraightIds =
         {sh \in DOMAIN shape_trip_dict :
            \/ TypeOfShape(sh) \cap route_types_Straight # {}
            \/ sh \in Range(NoRouteGenerated)}
    /\ \A sh \in DOMAIN shape_trip_dict :
         TypeOfShape(sh) \cap (route_types_Street \cup route_types_Straight) = {}
           => sh \notin (StreetIds \cup StraightIds)

C5_Witness ==
  /\ pc = "done"
  /\ route_types_Straight = {}
  /\ StraightIds # {}
  /\ \E sh \in DOMAIN shape_trip_dict :
       /\ TypeOfShape(sh) \cap (route_types_Street \cup route_types_Straight) = {}
       /\ sh \notin (StreetIds \cup StraightIds)

\* C6: every shape of a chunk whose Solve raised ends the run with no street
\* row and exactly one straight-line row in the Shapes output.
C6_FailedBatchGetsOneStraightLine ==
  pc = "done" =>
    /\ FailedShapes \cap StreetIds = {}
    /\ FailedShapes \subseteq StraightIds
    /\ Len(SelectSeq(StraightRows, LAMBDA r : ParseInt(r.Name) \in FailedShapes))
         = Cardinality(FailedShapes)

C6_Witness ==
  /\ pc = "done"
  /\ \E i \in DOMAIN solves : solves[i].failed /\ Cardinality(solves[i].shapes) = 2
  /\ Cardinality(FailedShapes \cap StraightIds) = 2

\* C7: a shape the solver reports as 'No route for' in a Solve that returns is
\* in NoRouteGenerated from then on; at the end of the run it has a
\* straight-line row with vertices and no street row, and the shapes the same
\* Solve returned routes for have their street row, one each.
C7_NoRouteShapeDegradesAlone ==
  /\ ReportedShapes \subseteq Range(NoRouteGenerated)
  /\ pc = "done" =>
       /\ ReportedShapes \cap StreetIds = {}
       /\ \A sh \in ReportedShapes :
            \E i \in DOMAIN StraightRows :
              /\ ParseInt(StraightRows[i].Name) = sh
              /\ StraightRows[i].vertices # << >>
       /\ RoutedShapes \subseteq StreetIds
       /\ Len(SelectSeq(StreetRows, LAMBDA r : ParseInt(r.Name) \in RoutedShapes))
            = Cardinality(RoutedShapes)

C7_Witness ==
  /\ pc = "done"
  /\ \E i \in DOMAIN solves :
       /\ ~solves[i].failed
       /\ Cardinality(solves[i].noroute) = 1
       /\ solves[i].routed # {}
       /\ solves[i].noroute \subseteq StraightIds
       /\ solves[i].routed \subseteq StreetIds

\* C8: a Solve that raises does not end the run. NoRouteGenerated holds the
\* shapes of the chunks whose Solve raised and the shapes reported as
\* 'No route for', and no other; once a Solve has raised the run is never in
\* the failed state; when the street pass is over every chunk has been
\* submitted, the ones after the failure too; and the straight-line pass has
\* drawn the shapes of the failed chunks before the route information is
\* added to a Shapes feature class that exists.
C8_BatchFailureNotFatal ==
  /\ Range(NoRouteGenerated) = FailedShapes \cup ReportedShapes
  /\ FailedShapes # {} =>
       /\ pc \in {"solve", "straight", "reconcile", "done"}
       /\ PassesOver => outRoutesfcExists /\ FailedShapes \subseteq StraightIds
  /\ (route_types_Street # {} /\ pc \in {"straight", "reconcile", "done"}) =>
       /\ Len(solves) = Len(sequences_Streets_chunked)
       /\ \A i \in DOMAIN solves :
            solves[i].shapes = Submitted(sequences_Streets_chunked[i])

C8_Witness ==
  /\ pc = "done"
  /\ Len(solves) = 2
  /\ solves[1].failed
  /\ ~solves[2].failed
  /\ solves[2].routed # {}
  /\ solves[1].shapes \subseteq StraightIds

\* the coordinates, in order, of the stops of a list that are in stops.txt:
\* x is the longitude, y the latitude
LocatedVertices(stops) ==
  LET located == SelectSeq(stops, LAMBDA st : st \in DOMAIN stoplatlon_dict)
  IN [i \in 1..Len(located) |-> <<StopsTxt[located[i]][2], StopsTxt[located[i]][1]>>]

\* C9: the polyline of a shape drawn by the straight-line pass has as vertices
\* the coordinates of the stops of its stop sequence that have a coordinate
\* record, in sequence order; a stop without one is left out.
C9_StraightLineVertices ==
  PassesOver =>
    \A i \in DOMAIN StraightRows :
      StraightRows[i].vertices = LocatedVertices(StopsOfShape(ParseInt(StraightRows[i].Name)))

C9_Witness ==
  /\ pc = "done"
  /\ \E i \in DOMAIN StraightRows :
       /\ StopsOfShape(ParseInt(StraightRows[i].Name)) = <<"S1", "S2", "S3">>
       /\ StraightRows[i].vertices = << <<0, 0>>, <<1, 1>> >>
  /\ \E i \in DOMAIN StraightRows :
       /\ StopsOfShape(ParseInt(StraightRows[i].Name)) = <<"S2">>

\* C10: the straight-line pass inserts no row for a shape none of whose stops
\* has a coordinate record.
C10_NoRowWithoutLocatedStops ==
  PassesOver =>
    \A sh \in DOMAIN shape_trip_dict :
      Range(StopsOfShape(sh)) \cap DOMAIN stoplatlon_dict = {} => sh \notin StraightIds

\* C11: once the route dictionary has been built, a route of the routes table
\* whose route_type is none of the known codes is in RouteDict, with the code
\* 100 and the text 'Other / Type not specified', and the run has not failed.
C11_UnknownTypeNormalised ==
  pc # "routes" =>
    \A i \in DOMAIN routes :
      ~KnownType(routes[i]) =>
        /\ pc # "failed"
        /\ routes[i].route_id \in DOMAIN RouteDict
        /\ RouteDict[routes[i].route_id].route_type = 100
        /\ RouteDict[routes[i].route_id].route_type_text = "Other / Type not specified"

\* ---- the warnings, read as lists
\* the stops the solver reported as unlocated
UnlocatedStops == UNION {solves[i].unlocated : i \in DOMAIN solves}

\* the stops without a coordinate record among the stops of the shapes a
\* pass has handled
StopsWithoutCoordinates ==
  UNION {Range(StopsOfShape(sh)) \ DOMAIN stoplatlon_dict :
           sh \in (UNION {solves[i].shapes : i \in DOMAIN solves}) \cup StraightIds}

\* the lists of the warnings about one thing
ListsAbout(about) ==
  UNION {warnings[i].list : i \in {j \in DOMAIN warnings : warnings[j].about = about}}

\* a list of shape ids, or of stop ids, is sorted and without repetition
StrictlySortedInts(l) == \A i \in 1..(Len(l) - 1) : l[i] < l[i + 1]
StrictlySortedStops(l) == \A i \in 1..(Len(l) - 1) : StopRank(l[i]) < StopRank(l[i + 1])

\* C12: at the end of a run the warnings list every shape degraded to a
\* straight line, every stop skipped for want of coordinates and every stop
\* the solver could not locate, each kind in a sorted list without
\* repetition of its own.
C12_WarningsListEverything ==
  pc = "done" =>
    /\ \A l \in ListsAbout("NoRouteGenerated") : StrictlySortedInts(l)
    /\ \A l \in ListsAbout("badStops") \cup ListsAbout("unlocated_stops") :
         StrictlySortedStops(l)
    /\ Range(NoRouteGenerated) \subseteq UNION {Range(l) : l \in ListsAbout("NoRouteGenerated")}
    /\ StopsWithoutCoordinates \subseteq UNION {Range(l) : l \in ListsAbout("badStops")}
    /\ UnlocatedStops \subseteq UNION {Range(l) : l \in ListsAbout("unlocated_stops")}

\* the (shape_id, sequence) pairs of the points of Stops_wShapeIDs
StopVisits == {<<outSequencePoints[i].shape_id, outSequencePoints[i].sequence>> :
                 i \in DOMAIN outSequencePoints}

\* C13: the final Stops_wShapeIDs output holds at most one point for a shape
\* id and a sequence number.
C13_OnePointPerStopVisit ==
  pc = "done" => Cardinality(StopVisits) = Len(outSequencePoints)

\* a trip with stop_times rows is of a route that has no row in the routes table
AbsentRoute ==
  \E t \in DOMAIN stop_times :
    tripsAtLoad[t].route_id \notin {routes[i].route_id : i \in DOMAIN routes}

\* C14 as stated: when a trip with stop_times rows is of a route absent from
\* the routes table, the run never reports completion, and when it has
\* aborted the Shapes output holds no geometry.
C14_AbsentRouteNoOutput ==
  AbsentRoute =>
    /\ pc # "done"
    /\ pc = "failed" => outRoutesfc = << >>

\* C14, amended: when a trip with stop_times rows is of a route absent from
\* the routes table, the run never reports completion; when it has aborted,
\* the Shapes output holds no street geometry, it holds no geometry at all
\* if the street pass was called, and the straight lines it may hold are of
\* the shapes the straight-line pass visited before the key whose route
\* lookup failed.
C14_AbsentRouteAborts ==
  AbsentRoute =>
    /\ pc # "done"
    /\ pc = "failed" =>
         /\ StreetIds = {}
         /\ route_types_Street # {} => outRoutesfc = << >>
         /\ StraightIds \subseteq
              {sequence_shape_dict[keyorder[i]] : i \in 1..KeysBeforeKeyError}

C14_Witness ==
  /\ AbsentRoute
  /\ pc = "failed"
  /\ route_types_Street = {}
  /\ KeysBeforeKeyError = 1
  /\ StraightIds = {sequence_shape_dict[keyorder[1]]}

\* the route_desc of a route in the routes table (of its last row)
DescInTable(route_id) ==
  routes[Max({i \in DOMAIN routes : routes[i].route_id = route_id})].route_desc

\* C15: in the final Shapes output the route_desc of a row is null when the
\* route's route_desc is null, the route_desc itself when it has at most
\* max_route_desc_length characters, and otherwise its first
\* max_route_desc_length characters exactly.
C15_RouteDescTruncated ==
  pc = "done" =>
    \A i \in DOMAIN outRoutesfc :
      LET row == outRoutesfc[i]
          desc == DescInTable(FirstKey(ParseInt(row.Name))[1])
      IN /\ desc = NULL => row.route_desc = NULL
         /\ \A text \in desc :
              /\ row.route_desc # NULL
              /\ \A written \in row.route_desc :
                   IF Len(text) <= max_route_desc_length THEN written = text
                   ELSE /\ Len(written) = max_route_desc_length
                        /\ \A k \in 1..max_route_desc_length : written[k] = text[k]

C15_Witness ==
  /\ pc = "done"
  /\ \E i \in DOMAIN outRoutesfc :
       /\ DescInTable(FirstKey(ParseInt(outRoutesfc[i].Name))[1]) = LongDesc
       /\ outRoutesfc[i].route_desc = FullDesc
  /\ \E i \in DOMAIN outRoutesfc :
       /\ DescInTable(FirstKey(ParseInt(outRoutesfc[i].Name))[1]) = FullDesc
       /\ outRoutesfc[i].route_desc = FullDesc
  /\ \E i \in DOMAIN outRoutesfc : outRoutesfc[i].route_desc = ShortDesc
  /\ \E i \in DOMAIN outRoutesfc : outRoutesfc[i].route_desc = EmptyDesc
  /\ \E i \in DOMAIN outRoutesfc : outRoutesfc[i].route_desc = NULL

\* the rows of the Shapes output that are of a shape
RowsOfShape(sh) == {i \in DOMAIN outRoutesfc : ParseInt(outRoutesfc[i].Name) = sh}

\* C16: a shape whose route type is in route_types_Street ends the run with
\* exactly one row in the Shapes output, the solver's route if the solver
\* returned one for it and a straight line otherwise, whatever the solver did
\* and whichever of its stops were left out of the solver's input.
C16_StreetShapeOneGeometry ==
  pc = "done" =>
    \A sh \in DOMAIN shape_trip_dict :
      TypeOfShape(sh) \cap route_types_Street # {} =>
        /\ Cardinality(RowsOfShape(sh)) = 1
        /\ \A i \in RowsOfShape(sh) :
             IsStreetRow(outRoutesfc[i]) <=> sh \in RoutedShapes

\* the stops of the sequences of the chunks the loop has been through
StopsOfChunks ==
  UNION {Range(q[2]) : q \in UNION {Range(sequences_Streets_chunked[c]) :
                                       c \in 1..(chunkidx - 1)}}

\* C17: in the street pass the stops recorded in badStops are exactly the
\* stops of the chunks gone through that have no coordinate record; and every
\* stop with a coordinate record of a chunk whose Solve has returned is among
\* the points handed to the solver, at its place in the sequence, also when
\* its location fields are null.
C17_OmittedOnlyWithoutCoordinates ==
  pc = "solve" =>
    /\ Range(badStops) = StopsOfChunks \ DOMAIN stoplatlon_dict
    /\ \A c \in 1..(chunkidx - 1) :
         ~solves[c].failed =>
           \A q \in Range(sequences_Streets_chunked[c]) :
             \A k \in DOMAIN q[2] :
               q[2][k] \in DOMAIN stoplatlon_dict =>
                 \E i \in DOMAIN outSequencePoints :
                   /\ outSequencePoints[i].shape_id = sequence_shape_dict[q]
                   /\ outSequencePoints[i].sequence = k
                   /\ outSequencePoints[i].stop_id = q[2][k]

\* a Solve has returned for a chunk with a stop that has coordinates and null
\* location fields and with a stop that has no coordinates: the first is
\* among the solver's points and not in badStops, the second is in badStops
C17_Witness ==
  /\ pc = "solve"
  /\ \E i \in DOMAIN outSequencePoints :
       /\ outSequencePoints[i].locfields = NULL
       /\ outSequencePoints[i].stop_id \notin Range(badStops)
  /\ \E st \in Range(badStops) : st \notin DOMAIN stoplatlon_dict

RECURSIVE Flattened(_)
\* the chunks one after the other
Flattened(chunks) ==
  IF chunks = << >> THEN << >> ELSE Flattened(SubSeq(chunks, 1, Len(chunks) - 1))
                                     \o chunks[Len(chunks)]

\* the keys of the street bucket in the iteration order of the dictionary
StreetBucket ==
  SelectSeq(keyorder, LAMBDA q : TypeInTable(q[1]) \cap route_types_Street # {})

\* the street pass has set up its chunks (or was not called) and has not failed
ChunksMade == pc \in {"solve", "straight", "reconcile", "done"}

\* C18: the chunks, one after the other, are the street bucket (so each of its
\* shapes is in exactly one chunk, and the chunks are consecutive pieces of
\* it); no chunk holds more than ChunkSize sequences and each but the last
\* holds ChunkSize; the Solves made so far are one for each chunk gone
\* through, in the order of the chunks, and one for each chunk at the end.
C18_ConsecutiveChunksOneSolveEach ==
  ChunksMade =>
    /\ Flattened(sequences_Streets_chunked) = StreetBucket
    /\ \A c \in DOMAIN sequences_Streets_chunked :
         /\ Len(sequences_Streets_chunked[c]) <= ChunkSize
         /\ c < Len(sequences_Streets_chunked) =>
              Len(sequences_Streets_chunked[c]) = ChunkSize
    /\ Len(solves) = (IF pc = "solve" THEN chunkidx - 1
                      ELSE Len(sequences_Streets_chunked))
    /\ \A c \in DOMAIN solves :
         solves[c].shapes = {sequence_shape_dict[q] :
                               q \in Range(sequences_Streets_chunked[c])}

\* a street bucket of more than ChunkSize shapes has been through the pass
C18_Witness ==
  /\ pc = "reconcile"
  /\ Len(StreetBucket) > ChunkSize
  /\ Len(sequences_Streets_chunked) = 2
  /\ Len(sequences_Streets_chunked[2]) = Len(StreetBucket) - ChunkSize
  /\ Len(solves) = 2

\* C19: once the routes of the shapes have been worked out, the list of each
\* shape holds one route id, the route of the shape's key; and in the final
\* output the route_id of a row is the route of the key of the row's shape.
C19_OneRoutePerShape ==
  DedupFinished =>
    /\ DOMAIN shape_route_dict = DOMAIN shape_trip_dict
    /\ \A sh \in DOMAIN shape_route_dict :
         shape_route_dict[sh] = <<FirstKey(sh)[1]>>
    /\ pc = "done" =>
         \A i \in DOMAIN outRoutesfc :
           outRoutesfc[i].route_id = Val(FirstKey(ParseInt(outRoutesfc[i].Name))[1])

\* two shapes of the same stops and of different routes are in the final
\* output, each with its own route
C19_Witness ==
  /\ pc = "done"
  /\ \E i, j \in DOMAIN outRoutesfc :
       LET a == ParseInt(outRoutesfc[i].Name)
           b == ParseInt(outRoutesfc[j].Name)
       IN /\ a # b
          /\ StopsOfShape(a) = StopsOfShape(b)
          /\ outRoutesfc[i].route_id = Val(FirstKey(a)[1])
          /\ outRoutesfc[j].route_id = Val(FirstKey(b)[1])
          /\ outRoutesfc[i].route_id # outRoutesfc[j].route_id

\* the points a step appends to the stops output: those of one chunk of the
\* street pass, or those of the straight-line pass
Emitted ==
  SubSeq(outSequencePoints', Len(outSequencePoints) + 1, Len(outSequencePoints'))

\* C20: every point a pass emits has as sequence number the place of its stop
\* in the whole stop sequence of its shape, counting from 1 and counting the
\* stops left out; and of two points of one shape emitted by a pass the later
\* has the greater number.
C20_SequenceIsPosition ==
  [][/\ \A i \in DOMAIN outSequencePoints : outSequencePoints'[i] = outSequencePoints[i]
     /\ \A i \in DOMAIN Emitted :
          LET stops == StopsOfShape(Emitted[i].shape_id) IN
          /\ Emitted[i].sequence \in DOMAIN stops
          /\ stops[Emitted[i].sequence] = Emitted[i].stop_id
     /\ \A i, j \in DOMAIN Emitted :
          (i < j /\ Emitted[i].shape_id = Emitted[j].shape_id) =>
            Emitted[i].sequence < Emitted[j].sequence]_vars

\* a street route and a straight line have been made for shapes whose second
\* stop has no coordinates: each shape has the points 1 and 3 and no point 2
C20_Witness ==
  /\ PassesOver
  /\ \E a \in RoutedShapes, b \in StraightIds \ RoutedShapes :
       \A sh \in {a, b} :
         /\ Len(StopsOfShape(sh)) = 3
         /\ StopsOfShape(sh)[2] \notin DOMAIN stoplatlon_dict
         /\ {outSequencePoints[i].sequence :
               i \in {k \in DOMAIN outSequencePoints :
                        outSequencePoints[k].shape_id = sh}} = {1, 3}

====
